---- MODULE Spec2Model ----
(***************************************************************************)
(* TftBridge (tftbridge.py): a relay between the TFT35 serial port and the *)
(* Klipper serial port.  handle_ready opens the two ports and starts two   *)
(* threads, tft2klipper and klipper2tft; handle_disconnect sets the stop   *)
(* event; each thread closes the port it reads from when it sees the event.*)
(*                                                                         *)
(* The event handlers run on the host's single reactor thread, so they are *)
(* serialised with each other, but handle_ready is interleaved statement   *)
(* by statement with the relay threads, and the relay threads with each    *)
(* other: every read or write of self.tft_serial, self.klipper_serial or   *)
(* self.stop_event is one step.                                            *)
(***************************************************************************)
EXTENDS Integers, Sequences, FiniteSets, TLC

\* ---------------------------------------------------------------- bounds
\* Spec: the host waits for the loops of the last run before the next ready
MaxSignals == 3   \* ready/disconnect events delivered by the host
MaxStale == 0     \* loops still running when the host delivers ready
MaxRecs == 1      \* records the two devices send, in total
MaxLog == 1       \* lines printed
\* SpecRace: ready may overtake a loop of the last run
RaceSignals == 4
RaceStale == 1
RaceRecs == 2
RaceLog == 1
\* SpecLeak: as SpecRace, with one more event and one record
LeakSignals == 5
LeakStale == 1
LeakRecs == 1
LeakLog == 1

Limits(sg, st, rc, lg) == [signals |-> sg, stale |-> st, recs |-> rc, log |-> lg]

\* ---------------------------------------------------------------- values
Endpoints == {"tft", "klipper"}
Kinds == {"tft2klipper", "klipper2tft"}
NL == 0           \* the newline byte; payload bytes are 1..MaxRecs

\* the device a loop reads from and the one it writes to
Src(kind) == IF kind = "tft2klipper" THEN "tft" ELSE "klipper"
Dst(kind) == IF kind = "tft2klipper" THEN "klipper" ELSE "tft"

\* Python values a loop's local `line` can hold: bytes from readline, or str
EmptyStr == [type |-> "str", data |-> <<>>]
EmptyBytes == [type |-> "bytes", data |-> <<>>]
Record(n) == [type |-> "bytes", data |-> <<n, NL>>]

\* `line != ""`: a bytes object never equals a str, whatever its length
NotEmptyStr(line) == ~(line.type = "str" /\ line.data = <<>>)

VARIABLES
  tft_serial,      \* self.tft_serial: 0 (None) or an index into conns
  klipper_serial,  \* self.klipper_serial
  stop_event,      \* self.stop_event.is_set()
  conns,           \* every serial.Serial object created so far
  threads,         \* every thread started so far
  ctl,             \* position of the reactor thread inside handle_ready
  sigs,            \* events handled so far
  outcome,         \* what the latest handle_ready did for each endpoint
  nextRec,         \* per device: number of the next record it sends
  written,         \* per device: bytes written to it so far
  log,             \* number of lines printed so far
  lim              \* the bounds of the run, never changed

vars == <<tft_serial, klipper_serial, stop_event, conns, threads, ctl, sigs,
          outcome, nextRec, written, log, lim>>

serial == [tft |-> tft_serial, klipper |-> klipper_serial]

SetSerial(ep, v) ==
  IF ep = "tft"
    THEN tft_serial' = v /\ UNCHANGED klipper_serial
    ELSE klipper_serial' = v /\ UNCHANGED tft_serial

NewThread(kind) ==
  [kind |-> kind, pc |-> "check_stop", line |-> EmptyStr, ev |-> "none",
   born |-> Len(sigs), first |-> "pending"]

InitWith(limits) ==
  /\ lim = limits
  /\ tft_serial = 0
  /\ klipper_serial = 0
  /\ stop_event = FALSE
  /\ conns = <<>>
  /\ threads = <<>>
  /\ ctl = "idle"
  /\ sigs = <<>>
  /\ outcome = [e \in Endpoints |-> "none"]
  /\ nextRec = [e \in Endpoints |-> 1]
  /\ written = [e \in Endpoints |-> <<>>]
  /\ log = 0

Init == InitWith(Limits(MaxSignals, MaxStale, MaxRecs, MaxLog))
InitRace == InitWith(Limits(RaceSignals, RaceStale, RaceRecs, RaceLog))
InitLeak == InitWith(Limits(LeakSignals, LeakStale, LeakRecs, LeakLog))

\* ------------------------------------------------------------ handle_ready
\* the threads that have not returned from their loop
Alive == {i \in 1..Len(threads) : threads[i].pc \notin {"done", "crashed"}}

NoOutcome == [e \in Endpoints |-> "none"]

\* `if self.X_serial is None:` / `try: self.X_serial = self.open_device(..)`
\* / `except Exception: print(..); self.X_serial = None`
OpenIfAbsent(ep, prev) ==
  IF serial[ep] # 0
    THEN /\ outcome' = [prev EXCEPT ![ep] = "reused"]
         /\ UNCHANGED <<tft_serial, klipper_serial, conns, log>>
    ELSE \/ /\ conns' = Append(conns, [ep |-> ep, open |-> TRUE, closes |-> 0])
            /\ SetSerial(ep, Len(conns) + 1)
            /\ outcome' = [prev EXCEPT ![ep] = "opened"]
            /\ UNCHANGED log
         \/ /\ log < lim.log
            /\ log' = log + 1
            /\ SetSerial(ep, 0)
            /\ outcome' = [prev EXCEPT ![ep] = "failed"]
            /\ UNCHANGED conns

\* klippy:ready is delivered and handle_ready runs its first statement
ReadyOpenTft ==
  /\ ctl = "idle"
  /\ Len(sigs) < lim.signals
  /\ Cardinality(Alive) <= lim.stale
  /\ sigs' = Append(sigs, "ready")
  /\ OpenIfAbsent("tft", NoOutcome)
  /\ ctl' = "open_klipper"
  /\ UNCHANGED <<lim, stop_event, threads, nextRec, written>>

ReadyOpenKlipper ==
  /\ ctl = "open_klipper"
  /\ OpenIfAbsent("klipper", outcome)
  /\ ctl' = "clear"
  /\ UNCHANGED <<lim, stop_event, threads, sigs, nextRec, written>>

\* self.stop_event.clear()
ReadyClear ==
  /\ ctl = "clear"
  /\ stop_event' = FALSE
  /\ ctl' = "start_tft2klipper"
  /\ UNCHANGED <<lim, tft_serial, klipper_serial, conns, threads, sigs, outcome,
                 nextRec, written, log>>

\* threading.Thread(target=self.tft2klipper).start()
ReadyStartTft2Klipper ==
  /\ ctl = "start_tft2klipper"
  /\ threads' = Append(threads, NewThread("tft2klipper"))
  /\ ctl' = "start_klipper2tft"
  /\ UNCHANGED <<lim, tft_serial, klipper_serial, stop_event, conns, sigs, outcome,
                 nextRec, written, log>>

\* mutant of ReadyStartKlipper2Tft: handle_ready returns after one start
ReadyStartOnlyOne ==
  /\ ctl = "start_klipper2tft"
  /\ ctl' = "idle"
  /\ UNCHANGED <<lim, tft_serial, klipper_serial, stop_event, conns, threads,
                 sigs, outcome, nextRec, written, log>>

\* threading.Thread(target=self.klipper2tft).start(); handle_ready returns
ReadyStartKlipper2Tft ==
  /\ ctl = "start_klipper2tft"
  /\ threads' = Append(threads, NewThread("klipper2tft"))
  /\ ctl' = "idle"
  /\ UNCHANGED <<lim, tft_serial, klipper_serial, stop_event, conns, sigs, outcome,
                 nextRec, written, log>>

\* ------------------------------------------------------- handle_disconnect
\* mutant of HandleDisconnect: the handler also closes and clears the TFT port
HandleDisconnectCloses ==
  /\ ctl = "idle"
  /\ Len(sigs) < lim.signals
  /\ sigs' = Append(sigs, "disconnect")
  /\ stop_event' = TRUE
  /\ tft_serial' = 0
  /\ conns' = [h \in 1..Len(conns) |->
                IF h = tft_serial THEN [conns[h] EXCEPT !.open = FALSE] ELSE conns[h]]
  /\ UNCHANGED <<lim, klipper_serial, threads, ctl, outcome, nextRec, written, log>>

HandleDisconnect ==
  /\ ctl = "idle"
  /\ Len(sigs) < lim.signals
  /\ sigs' = Append(sigs, "disconnect")
  /\ stop_event' = TRUE
  /\ UNCHANGED <<lim, tft_serial, klipper_serial, conns, threads, ctl, outcome,
                 nextRec, written, log>>

\* ------------------------------------------- tft2klipper and klipper2tft
\* The two loops have the same statements with the two ports exchanged;
\* thread i runs the loop threads[i].kind.
Threads == 1..Len(threads)

Goto(i, pc) == threads' = [threads EXCEPT ![i].pc = pc]

\* whether the disconnect that directly followed this thread's ready is the
\* only event handled since the thread was started
DisconnectedAtOnce(t) ==
  /\ Len(sigs) = t.born + 1
  /\ sigs[t.born + 1] = "disconnect"

\* `if self.stop_event.is_set():` at the top of an iteration
CheckStop(i) ==
  LET t == threads[i] IN
  /\ t.pc = "check_stop"
  /\ threads' = [threads EXCEPT
       ![i].pc = IF stop_event THEN "sd_check" ELSE "chk_tft",
       ![i].ev = "none",
       ![i].first = IF t.first # "pending" THEN t.first
                    ELSE IF ~DisconnectedAtOnce(t) THEN "other"
                    ELSE IF stop_event THEN "imm_set" ELSE "imm_clear"]
  /\ UNCHANGED <<lim, tft_serial, klipper_serial, stop_event, conns, ctl, sigs,
                 outcome, nextRec, written, log>>

\* shutdown branch: `if self.<src>_serial is not None:`
ShutdownCheck(i) ==
  LET t == threads[i] IN
  /\ t.pc = "sd_check"
  /\ Goto(i, IF serial[Src(t.kind)] # 0 THEN "sd_close" ELSE "sd_clear")
  /\ UNCHANGED <<lim, tft_serial, klipper_serial, stop_event, conns, ctl, sigs,
                 outcome, nextRec, written, log>>

\* mutant of ShutdownClose: the loop closes the port it writes to
ShutdownCloseDst(i) ==
  LET t == threads[i]
      h == serial[Dst(t.kind)] IN
  /\ t.pc = "sd_close"
  /\ IF h = 0
       THEN /\ Goto(i, "crashed")
            /\ UNCHANGED conns
       ELSE /\ conns' = [conns EXCEPT ![h].open = FALSE,
                                      ![h].closes = conns[h].closes + 1]
            /\ Goto(i, "sd_clear")
  /\ UNCHANGED <<lim, tft_serial, klipper_serial, stop_event, ctl, sigs, outcome,
                 nextRec, written, log>>

\* `self.<src>_serial.close()`: the attribute is read again; on None the
\* AttributeError is caught by nothing and ends the thread
ShutdownClose(i) ==
  LET t == threads[i]
      h == serial[Src(t.kind)] IN
  /\ t.pc = "sd_close"
  /\ IF h = 0
       THEN /\ Goto(i, "crashed")
            /\ UNCHANGED conns
       ELSE /\ conns' = [conns EXCEPT ![h].open = FALSE,
                                      ![h].closes = conns[h].closes + 1]
            /\ Goto(i, "sd_clear")
  /\ UNCHANGED <<lim, tft_serial, klipper_serial, stop_event, ctl, sigs, outcome,
                 nextRec, written, log>>

\* `self.<src>_serial = None` / `break`
ShutdownClear(i) ==
  LET t == threads[i] IN
  /\ t.pc = "sd_clear"
  /\ SetSerial(Src(t.kind), 0)
  /\ Goto(i, "done")
  /\ UNCHANGED <<lim, stop_event, conns, ctl, sigs, outcome, nextRec, written, log>>

\* mutant of CheckTft: the loop reopens the TFT port when it finds it absent
CheckTftReopens(i) ==
  LET t == threads[i] IN
  /\ t.pc = "chk_tft"
  /\ IF tft_serial # 0
       THEN /\ Goto(i, "chk_klipper")
            /\ UNCHANGED <<tft_serial, conns>>
       ELSE /\ Goto(i, "check_stop")
            /\ conns' = Append(conns, [ep |-> "tft", open |-> TRUE, closes |-> 0])
            /\ tft_serial' = Len(conns) + 1
  /\ UNCHANGED <<lim, klipper_serial, stop_event, ctl, sigs,
                 outcome, nextRec, written, log>>

\* `if self.tft_serial is not None and ...`: first operand
CheckTft(i) ==
  LET t == threads[i] IN
  /\ t.pc = "chk_tft"
  /\ Goto(i, IF tft_serial # 0 THEN "chk_klipper" ELSE "check_stop")
  /\ UNCHANGED <<lim, tft_serial, klipper_serial, stop_event, conns, ctl, sigs,
                 outcome, nextRec, written, log>>

\* mutant of CheckKlipper: the second operand is not tested
CheckKlipperSkipped(i) ==
  LET t == threads[i] IN
  /\ t.pc = "chk_klipper"
  /\ Goto(i, "read")
  /\ UNCHANGED <<lim, tft_serial, klipper_serial, stop_event, conns, ctl, sigs,
                 outcome, nextRec, written, log>>

\* `... and self.klipper_serial is not None:`: second operand
CheckKlipper(i) ==
  LET t == threads[i] IN
  /\ t.pc = "chk_klipper"
  /\ Goto(i, IF klipper_serial # 0 THEN "read" ELSE "check_stop")
  /\ UNCHANGED <<lim, tft_serial, klipper_serial, stop_event, conns, ctl, sigs,
                 outcome, nextRec, written, log>>

\* the thread after `line` has been assigned: `if line != "":` selects the
\* write or the next iteration
AfterRead(t, line, ev) ==
  [t EXCEPT !.line = IF NotEmptyStr(line) THEN line ELSE EmptyStr,
            !.ev = ev,
            !.pc = IF NotEmptyStr(line) THEN "write" ELSE "check_stop"]

\* records the two devices have sent so far
Sent == (nextRec["tft"] - 1) + (nextRec["klipper"] - 1)

\* `try: line = self.<src>_serial.readline()` returns a record
ReadRecord(i) ==
  LET t == threads[i]
      src == Src(t.kind)
      h == serial[src] IN
  /\ t.pc = "read"
  /\ h # 0 /\ conns[h].open
  /\ Sent < lim.recs
  /\ nextRec' = [nextRec EXCEPT ![src] = nextRec[src] + 1]
  /\ threads' = [threads EXCEPT ![i] = AfterRead(t, Record(nextRec[src]), "none")]
  /\ UNCHANGED <<lim, tft_serial, klipper_serial, stop_event, conns, ctl, sigs,
                 outcome, written, log>>

\* readline returns on timeout: pyserial gives the empty bytes object
ReadTimeout(i) ==
  LET t == threads[i]
      h == serial[Src(t.kind)] IN
  /\ t.pc = "read"
  /\ h # 0 /\ conns[h].open
  /\ threads' = [threads EXCEPT ![i] = AfterRead(t, EmptyBytes, "none")]
  /\ UNCHANGED <<lim, tft_serial, klipper_serial, stop_event, conns, ctl, sigs,
                 outcome, nextRec, written, log>>

\* mutant of ReadError: the handler assigns the empty bytes object
ReadErrorBytes(i) ==
  LET t == threads[i] IN
  /\ t.pc = "read"
  /\ log < lim.log
  /\ log' = log + 1
  /\ threads' = [threads EXCEPT ![i] = AfterRead(t, EmptyBytes, "rderr")]
  /\ UNCHANGED <<lim, tft_serial, klipper_serial, stop_event, conns, ctl, sigs,
                 outcome, nextRec, written>>

\* readline raises (I/O error, port closed, or the attribute is None by now):
\* `except Exception: print(..); line = ""`
ReadError(i) ==
  LET t == threads[i]
      src == Src(t.kind)
      h == serial[src] IN
  /\ t.pc = "read"
  /\ log < lim.log
  /\ log' = log + 1
  /\ threads' = [threads EXCEPT ![i] = AfterRead(t, EmptyStr, "rderr")]
  /\ UNCHANGED <<lim, tft_serial, klipper_serial, stop_event, conns, ctl, sigs,
                 outcome, nextRec, written>>

\* the thread after the write statement, whatever its result
AfterWrite(t, ev) ==
  [t EXCEPT !.line = EmptyStr, !.ev = ev, !.pc = "check_stop"]

\* `try: self.<dst>_serial.write(line)` succeeds
WriteOk(i) ==
  LET t == threads[i]
      dst == Dst(t.kind)
      h == serial[dst] IN
  /\ t.pc = "write"
  /\ h # 0 /\ conns[h].open
  /\ written' = [written EXCEPT ![dst] = written[dst] \o t.line.data]
  /\ threads' = [threads EXCEPT ![i] = AfterWrite(t, "none")]
  /\ UNCHANGED <<lim, tft_serial, klipper_serial, stop_event, conns, ctl, sigs,
                 outcome, nextRec, log>>

\* mutant of WriteError: the write is not inside a try
WriteErrorUncaught(i) ==
  LET t == threads[i] IN
  /\ t.pc = "write"
  /\ log < lim.log
  /\ threads' = [threads EXCEPT ![i].ev = "wrfail", ![i].pc = "crashed"]
  /\ UNCHANGED <<lim, tft_serial, klipper_serial, stop_event, conns, ctl, sigs,
                 outcome, nextRec, written, log>>

\* write raises (I/O error, port closed, or the attribute is None by now):
\* `except Exception: print(..)`
WriteError(i) ==
  LET t == threads[i]
      dst == Dst(t.kind)
      h == serial[dst] IN
  /\ t.pc = "write"
  /\ log < lim.log
  /\ log' = log + 1
  /\ threads' = [threads EXCEPT ![i] = AfterWrite(t, "wrfail")]
  /\ UNCHANGED <<lim, tft_serial, klipper_serial, stop_event, conns, ctl, sigs,
                 outcome, nextRec, written>>

\* ---------------------------------------------------------- specification
Next ==
  \/ ReadyOpenTft
  \/ ReadyOpenKlipper
  \/ ReadyClear
  \/ ReadyStartTft2Klipper
  \/ ReadyStartKlipper2Tft
  \/ HandleDisconnect
  \/ \E i \in Threads : CheckStop(i)
  \/ \E i \in Threads : ShutdownCheck(i)
  \/ \E i \in Threads : ShutdownClose(i)
  \/ \E i \in Threads : ShutdownClear(i)
  \/ \E i \in Threads : CheckTft(i)
  \/ \E i \in Threads : CheckKlipper(i)
  \/ \E i \in Threads : ReadRecord(i)
  \/ \E i \in Threads : ReadTimeout(i)
  \/ \E i \in Threads : ReadError(i)
  \/ \E i \in Threads : WriteOk(i)
  \/ \E i \in Threads : WriteError(i)

Spec == Init /\ [][Next]_vars
SpecRace == InitRace /\ [][Next]_vars
SpecLeak == InitLeak /\ [][Next]_vars

\* ------------------------------------------------------------ properties
Last(q) == q[Len(q)]

IsPrefix(a, b) == Len(a) <= Len(b) /\ a = SubSeq(b, 1, Len(a))

\* the bytes of the first n records a device sends
RECURSIVE Stream(_)
Stream(n) == IF n = 0 THEN <<>> ELSE Stream(n - 1) \o Record(n).data

AliveOf(kind) == {i \in Alive : threads[i].kind = kind}

OpenConns(ep) == {h \in 1..Len(conns) : conns[h].ep = ep /\ conns[h].open}

\* the threads started by the latest handle_ready
Started == {i \in Threads : threads[i].born = Len(sigs)}

IdlePcs == {"check_stop", "chk_tft", "chk_klipper"}
ShutdownPcs == {"sd_check", "sd_close", "sd_clear"}

\* C1: as long as nothing has failed, the bytes written to each device are
\* the records read from the other one, each once and in the order read.
C1_PassThroughInOrder ==
  log = 0 =>
    \A k \in Kinds : IsPrefix(written[Dst(k)], Stream(nextRec[Src(k)] - 1))

\* C2: at most one tft2klipper loop and at most one klipper2tft loop is
\* active in any reachable state.
C2_OneLoopPerDirection ==
  \A k \in Kinds : Cardinality(AliveOf(k)) <= 1

\* C3: no endpoint has two connections that are opened and not yet closed.
C3_OneLiveConnection ==
  \A e \in Endpoints : Cardinality(OpenConns(e)) <= 1

\* C4: once disconnect has been handled and every loop has ended, both
\* handles are absent and every connection that was opened is closed.
C4_DisconnectClosesAll ==
  (stop_event /\ ctl = "idle" /\ threads # <<>> /\ Alive = {}) =>
    /\ tft_serial = 0
    /\ klipper_serial = 0
    /\ \A h \in 1..Len(conns) : ~conns[h].open

\* C5: a loop never reaches its write call holding the value a timed-out
\* read returned.
C5_TimeoutNoWrite ==
  \A i \in Threads : threads[i].pc = "write" => threads[i].line # EmptyBytes

\* C6: a failed write prints exactly one line, leaves the destination's
\* bytes unchanged, drops the record and puts the loop at the top of its
\* next iteration.
C6_WriteFailure ==
  [][\A i \in Threads :
       (threads[i].pc = "write" /\ threads'[i].ev = "wrfail") =>
         /\ log' = log + 1
         /\ written' = written
         /\ threads'[i].pc = "check_stop"
         /\ threads'[i].line = EmptyStr]_vars

C6_Witness ==
  \E i \in Threads : threads[i].ev = "wrfail" /\ threads[i].pc = "check_stop"

\* C7: no loop ends by an exception.
C7_NoLoopCrashes ==
  \A i \in Threads : threads[i].pc # "crashed"

\* C8: a failed read prints exactly one line, is followed by no write in
\* that iteration and puts the loop at the top of its next iteration.
C8_ReadFailure ==
  [][\A i \in Threads :
       (threads[i].pc = "read" /\ threads'[i].ev = "rderr") =>
         /\ log' = log + 1
         /\ written' = written
         /\ threads'[i].pc = "check_stop"
         /\ threads'[i].line = EmptyStr]_vars

C8_Witness ==
  \E i \in Threads : threads[i].ev = "rderr" /\ threads[i].pc = "check_stop"

\* the latest event is a ready that opened one endpoint and failed to open
\* the other
HalfOpen ==
  /\ sigs # <<>>
  /\ Last(sigs) = "ready"
  /\ {outcome["tft"], outcome["klipper"]} = {"opened", "failed"}

\* C9: after a ready that opened one endpoint and failed on the other, and
\* until the next event, the failed handle is absent, both loops are started
\* once handle_ready has returned, and neither of them reaches a read or a
\* write or ends.
C9_HalfOpenIdles ==
  HalfOpen =>
    /\ \A e \in Endpoints : outcome[e] = "failed" => serial[e] = 0
    /\ ctl = "idle" => {threads[i].kind : i \in Started} = Kinds
    /\ \A i \in Started : threads[i].pc \in IdlePcs

C9_Witness ==
  /\ HalfOpen
  /\ ctl = "idle"
  /\ \A i \in Started : threads[i].first = "other"
  /\ \E i \in Started : threads[i].pc = "chk_klipper"

\* C10: a loop whose first check of the stop event comes after the disconnect
\* that directly followed its ready sees the event set, and from then on is in
\* its shutdown branch or has returned from it: it reads nothing, writes
\* nothing and raises nothing.
C10_ImmediateDisconnect ==
  \A i \in Threads :
    /\ threads[i].first # "imm_clear"
    /\ threads[i].first = "imm_set" => threads[i].pc \in ShutdownPcs \cup {"done"}

\* the endpoint handle_ready is about to deal with
OpenStepOf(c) == IF c = "idle" THEN "tft" ELSE "klipper"

\* C11 as stated: no endpoint is opened while the stop event is still set
\* (the event is cleared before the opens).
C11_ClearBeforeOpen ==
  [][Len(conns') > Len(conns) => ~stop_event]_vars

\* C11 as amended: handle_ready first deals with each endpoint (opening it
\* only when its handle is absent, a failed open leaving it absent, with
\* the stop event untouched), then clears the stop event, then starts exactly
\* two loops, tft2klipper and then klipper2tft.
C11_ReadyOrder ==
  [][/\ (ctl \in {"idle", "open_klipper"} /\ ctl' # ctl) =>
          LET e == OpenStepOf(ctl) IN
          /\ stop_event' = stop_event
          /\ Started' = {}
          /\ serial[e] # 0 =>
               (outcome'[e] = "reused" /\ serial'[e] = serial[e] /\ conns' = conns)
          /\ serial[e] = 0 =>
               \/ outcome'[e] = "failed" /\ serial'[e] = 0 /\ conns' = conns
               \/ /\ outcome'[e] = "opened"
                  /\ serial'[e] = Len(conns')
                  /\ Len(conns') = Len(conns) + 1
                  /\ Last(conns') = [ep |-> e, open |-> TRUE, closes |-> 0]
     /\ Len(conns') > Len(conns) => (ctl \in {"idle", "open_klipper"} /\ ctl' # ctl)
     /\ (ctl = "clear" /\ ctl' # ctl) =>
          /\ ~stop_event'
          /\ \A e \in Endpoints : outcome[e] # "none"
          /\ Started = {}
          /\ threads' = threads /\ conns' = conns
     /\ Len(threads') > Len(threads) =>
          /\ ~stop_event
          /\ Len(threads') = Len(threads) + 1
          /\ Last(threads').kind =
               IF Started = {} THEN "tft2klipper" ELSE "klipper2tft"
     /\ (ctl # "idle" /\ ctl' = "idle") =>
          /\ Cardinality(Started') = 2
          /\ {threads'[i].kind : i \in Started'} = Kinds]_vars

C11_Witness ==
  /\ sigs = <<"ready", "disconnect", "ready">>
  /\ ctl = "idle"
  /\ Cardinality(Started) = 2
  /\ \E e \in Endpoints : outcome[e] = "opened"

\* C12: handling disconnect sets the stop event and changes nothing else: not
\* the handles, not any connection, not any loop.
C12_DisconnectFrame ==
  [][sigs' = Append(sigs, "disconnect") =>
       /\ stop_event'
       /\ UNCHANGED <<tft_serial, klipper_serial, conns, threads, ctl>>]_vars

C12_Witness ==
  /\ sigs # <<>>
  /\ Last(sigs) = "disconnect"
  /\ stop_event
  /\ Cardinality(Alive) = 2
  /\ tft_serial # 0 /\ conns[tft_serial].open
  /\ klipper_serial # 0 /\ conns[klipper_serial].open

\* thread i takes the step from pc `from` to pc `to`
Steps(i, from, to) == threads[i].pc = from /\ threads'[i].pc = to

\* C13: a connection is closed only by the close statement of the loop that
\* reads from its endpoint, and a handle is cleared only by the clear
\* statement of the loop that reads from its endpoint; no handler step closes
\* or clears anything.
C13_CloseOwnership ==
  [][/\ \A h \in 1..Len(conns) :
          conns'[h] # conns[h] =>
            /\ ctl' = ctl /\ sigs' = sigs
            /\ \E i \in Threads : /\ Steps(i, "sd_close", "sd_clear")
                                  /\ Src(threads[i].kind) = conns[h].ep
     /\ \A e \in Endpoints :
          (serial[e] # 0 /\ serial'[e] = 0) =>
            /\ ctl' = ctl /\ sigs' = sigs
            /\ \E i \in Threads : /\ Steps(i, "sd_clear", "done")
                                  /\ Src(threads[i].kind) = e]_vars

C13_Witness ==
  /\ tft_serial = 0
  /\ klipper_serial # 0 /\ conns[klipper_serial].open
  /\ \E h \in 1..Len(conns) : conns[h].ep = "tft" /\ conns[h].closes = 1
  /\ \E i \in Threads : threads[i].kind = "tft2klipper" /\ threads[i].pc = "done"

\* C14: no two loops are inside a read of the same connection, or at a write
\* to the same connection, at the same time.
C14_SingleReaderWriter ==
  \A i, j \in Threads :
    (/\ i # j
     /\ threads[i].pc = threads[j].pc
     /\ threads[i].pc \in {"read", "write"}) =>
      LET e(k) == IF threads[k].pc = "read" THEN Src(threads[k].kind)
                  ELSE Dst(threads[k].kind) IN
      e(i) # e(j) \/ serial[e(i)] = 0

\* C15: every step that performs a read or a write call finds the handle of
\* its port present and the connection open.
C15_IoOnLiveConnection ==
  [][\A i \in Threads :
       (threads[i].pc \in {"read", "write"} /\ threads'[i] # threads[i]) =>
         LET e == IF threads[i].pc = "read" THEN Src(threads[i].kind)
                  ELSE Dst(threads[i].kind) IN
         serial[e] # 0 /\ conns[serial[e]].open]_vars

\* C16: close is called at most once on each connection.
C16_ClosedOnce ==
  \A h \in 1..Len(conns) : conns[h].closes <= 1

\* C17: every connection that is open is the one its endpoint's handle
\* refers to.
C17_NoLeak ==
  \A h \in 1..Len(conns) : conns[h].open => serial[conns[h].ep] = h

\* C18: a handle goes from absent to present only in a step of handle_ready
\* that opens its endpoint; no loop step does it.
C18_OnlyReadyOpens ==
  [][\A e \in Endpoints :
       (serial[e] = 0 /\ serial'[e] # 0) =>
         /\ ctl \in {"idle", "open_klipper"} /\ ctl' # ctl
         /\ e = OpenStepOf(ctl)
         /\ threads' = threads]_vars

C18_Witness ==
  /\ ctl = "idle"
  /\ ~stop_event
  /\ \E e \in Endpoints : outcome[e] = "failed" /\ serial[e] = 0
  /\ \E i \in Started : threads[i].kind = "tft2klipper" /\ threads[i].first = "other"
  /\ \E i \in Started : threads[i].kind = "klipper2tft" /\ threads[i].first = "other"

\* a disconnect has been handled since thread t was started
DisconnectedSince(t) ==
  \E k \in (t.born + 1)..Len(sigs) : sigs[k] = "disconnect"

\* C19: a loop that was active when a disconnect was handled finds the stop
\* event set at its next check and enters its shutdown branch, whatever
\* ready has been handled in between.
C19_DisconnectNotMissed ==
  [][\A i \in Threads :
       (threads[i].pc = "check_stop" /\ threads'[i] # threads[i]
        /\ DisconnectedSince(threads[i])) =>
         threads'[i].pc = "sd_check"]_vars

\* C20: when handle_ready has returned, the stop event is clear and no loop
\* is in its shutdown branch, a handle is absent only if the latest ready
\* failed to open its endpoint, and a present handle refers to an open
\* connection.
C20_RunningHandles ==
  (/\ ctl = "idle"
   /\ ~stop_event
   /\ sigs # <<>>
   /\ \A i \in Threads : threads[i].pc \notin ShutdownPcs) =>
    \A e \in Endpoints :
      /\ serial[e] = 0 => outcome[e] = "failed"
      /\ serial[e] # 0 => conns[serial[e]].open

====
